---- MODULE Spec2Model ----
(***************************************************************************)
(* SRV RR resolution of connection parameters (psycopg/_dns.py,            *)
(* class Rfc2782Resolver).                                                 *)
(*                                                                         *)
(* Strings are sequences of one-character strings, so that split, join,    *)
(* lower, rstrip, str(int) and the SRV name pattern are computed.          *)
(* An Optional value is <<>> (None) or <<v>>.                              *)
(***************************************************************************)
EXTENDS Integers, Sequences, FiniteSets, TLC

(***************************************************************************)
(* Bounds of the model.                                                    *)
(***************************************************************************)
\* Longest host list of a parameter set (the port list may be one longer).
MaxHosts == 2

\* Most SRV answers a lookup returns in the selector's specification.
MaxAns == 3

(***************************************************************************)
(* String primitives.                                                      *)
(***************************************************************************)
Comma == ","

Dot == "."

\* str.lower() on one character, for the letters the model uses.
LowerChar(c) ==
    CASE c = "S" -> "s"
      [] c = "R" -> "r"
      [] c = "V" -> "v"
      [] OTHER -> c

\* str.lower()
Lower(s) == [i \in 1..Len(s) |-> LowerChar(s[i])]

\* Index of the first occurrence of character c in s, 0 when there is none.
IndexOf(s, c) ==
    IF \E i \in 1..Len(s) : s[i] = c
    THEN CHOOSE i \in 1..Len(s) : s[i] = c /\ \A j \in 1..(i - 1) : s[j] # c
    ELSE 0

\* str.split(sep): always at least one element, "" splits to [""].
RECURSIVE Split(_, _)
Split(s, sep) ==
    LET k == IndexOf(s, sep)
    IN IF k = 0
       THEN <<s>>
       ELSE <<SubSeq(s, 1, k - 1)>> \o Split(SubSeq(s, k + 1, Len(s)), sep)

\* sep.join(parts)
RECURSIVE Join(_, _)
Join(parts, sep) ==
    IF parts = <<>> THEN <<>>
    ELSE IF Len(parts) = 1 THEN parts[1]
    ELSE parts[1] \o <<sep>> \o Join(Tail(parts), sep)

\* str.rstrip("."): every trailing dot is removed.
RECURSIVE RStripDot(_)
RStripDot(s) ==
    IF s # <<>> /\ s[Len(s)] = Dot THEN RStripDot(SubSeq(s, 1, Len(s) - 1)) ELSE s

DigitChars == <<"0", "1", "2", "3", "4", "5", "6", "7", "8", "9">>

\* str(n) for a non-negative integer.
RECURSIVE IntToStr(_)
IntToStr(n) ==
    IF n < 10 THEN <<DigitChars[n + 1]>>
    ELSE IntToStr(n \div 10) \o <<DigitChars[(n % 10) + 1]>>

SRV_lower == <<"s", "r", "v">>

(***************************************************************************)
(* dict helpers: a dict is a function from a finite set of keys.           *)
(***************************************************************************)
\* d.get(k, default)
Get(d, k, default) == IF k \in DOMAIN d THEN d[k] ELSE default

(***************************************************************************)
(* HostPort and the SRV name pattern.                                      *)
(***************************************************************************)
\* class HostPort(NamedTuple): totry defaults to False, target to None.
HostPort(host, port, totry, target) ==
    [host |-> host, port |-> port, totry |-> totry, target |-> target]

\* One label "_x..." of re_srv_rr: an underscore, then one or more characters
\* other than a dot, up to the dot at index d.
SrvLabelAt(s, d) == d >= 3 /\ s[1] = "_"

\* re_srv_rr.match(host): <<target>> when host is _service._proto.target, else <<>>.
re_srv_rr(host) ==
    LET d1 == IndexOf(host, Dot)
        rest1 == SubSeq(host, d1 + 1, Len(host))
        d2 == IndexOf(rest1, Dot)
        target == SubSeq(rest1, d2 + 1, Len(rest1))
    IN IF /\ SrvLabelAt(host, d1)
          /\ SrvLabelAt(rest1, d2)
          /\ Len(target) >= 1
       THEN <<target>>
       ELSE <<>>

(***************************************************************************)
(* Results of a call.                                                      *)
(***************************************************************************)
EmptyDict == <<>>

NotRun == [kind |-> "none", params |-> EmptyDict, msg |-> "", nhosts |-> 0, nports |-> 0]

Returned(p) == [kind |-> "params", params |-> p, msg |-> "", nhosts |-> 0, nports |-> 0]

\* e.OperationalError(f"cannot match {len(hosts_in)} hosts with {len(ports_in)} port numbers")
MismatchError(nh, np) ==
    [kind |-> "error", params |-> EmptyDict, msg |-> "cannot match hosts with port numbers",
     nhosts |-> nh, nports |-> np]

\* e.OperationalError("no host found after SRV RR lookup")
ExhaustedError ==
    [kind |-> "error", params |-> EmptyDict, msg |-> "no host found after SRV RR lookup",
     nhosts |-> 0, nports |-> 0]

(***************************************************************************)
(* _get_attempts                                                           *)
(***************************************************************************)
\* Mutant of BroadcastPorts: the first port is broadcast whatever the list.
BroadcastPorts_always(ports_in, hosts_in) ==
    [i \in 1..Len(hosts_in) |-> ports_in[1]]

\* ports_in after "if len(ports_in) == 1: ports_in *= len(hosts_in)".
BroadcastPorts(ports_in, hosts_in) ==
    IF Len(ports_in) = 1
    THEN [i \in 1..Len(hosts_in) |-> ports_in[1]]
    ELSE ports_in

\* Mutant of Classify: any host that begins with an underscore is flagged.
Classify_underscore(host, port) ==
    LET m == re_srv_rr(host)
    IN IF (host # <<>> /\ host[1] = "_") \/ Lower(port) = SRV_lower
       THEN HostPort(host, port, TRUE, m)
       ELSE HostPort(host, port, FALSE, <<>>)

\* The loop body of _get_attempts for one (host, port) pair.
Classify(host, port) ==
    LET m == re_srv_rr(host)
    IN IF m # <<>> \/ Lower(port) = SRV_lower
       THEN HostPort(host, port, TRUE, m)
       ELSE HostPort(host, port, FALSE, <<>>)

\* Mutant of get_attempts: hostaddr is not looked at.
get_attempts_ignoring_hostaddr(p, environ) ==
    LET host_arg == Get(p, "host", Get(environ, "PGHOST", <<>>))
        hosts_in == Split(host_arg, Comma)
        port_arg == Get(p, "port", Get(environ, "PGPORT", <<>>))
        ports_in == BroadcastPorts(Split(port_arg, Comma), hosts_in)
        out == [i \in 1..Len(hosts_in) |-> Classify(hosts_in[i], ports_in[i])]
        srv_found == \E i \in 1..Len(out) : out[i].totry
    IN IF Len(ports_in) # Len(hosts_in)
       THEN [raised |-> TRUE,
             error |-> MismatchError(Len(hosts_in), Len(ports_in)),
             attempts |-> <<>>]
       ELSE [raised |-> FALSE, error |-> NotRun,
             attempts |-> IF srv_found THEN out ELSE <<>>]

\* _get_attempts(params): [raised, error, attempts].
get_attempts(p, environ) ==
    IF Get(p, "hostaddr", Get(environ, "PGHOSTADDR", <<>>)) # <<>>
    THEN [raised |-> FALSE, error |-> NotRun, attempts |-> <<>>]
    ELSE
      LET host_arg == Get(p, "host", Get(environ, "PGHOST", <<>>))
          hosts_in == Split(host_arg, Comma)
          port_arg == Get(p, "port", Get(environ, "PGPORT", <<>>))
          ports_in == BroadcastPorts(Split(port_arg, Comma), hosts_in)
          out == [i \in 1..Len(hosts_in) |-> Classify(hosts_in[i], ports_in[i])]
          srv_found == \E i \in 1..Len(out) : out[i].totry
      IN IF Len(ports_in) # Len(hosts_in)
         THEN [raised |-> TRUE,
               error |-> MismatchError(Len(hosts_in), Len(ports_in)),
               attempts |-> <<>>]
         ELSE [raised |-> FALSE, error |-> NotRun,
               attempts |-> IF srv_found THEN out ELSE <<>>]

(***************************************************************************)
(* sort_rfc2782: priority tiers and the weighted walk.                     *)
(* An SRV answer is [priority, weight, target, port]; target is the text   *)
(* of the name (str(entry.target)), port an integer.                       *)
(***************************************************************************)
SRV(priority, weight, target, port) ==
    [priority |-> priority, weight |-> weight, target |-> target, port |-> port]

\* Mutant of sorted_keys: descending.
RECURSIVE sorted_keys_reversed(_)
sorted_keys_reversed(S) ==
    IF S = {} THEN <<>>
    ELSE LET m == CHOOSE x \in S : \A y \in S : x >= y
         IN <<m>> \o sorted_keys_reversed(S \ {m})

\* sorted() on a set of integer keys: ascending.
RECURSIVE sorted_keys(_)
sorted_keys(S) ==
    IF S = {} THEN <<>>
    ELSE LET m == CHOOSE x \in S : \A y \in S : x <= y
         IN <<m>> \o sorted_keys(S \ {m})

\* entries of one priority, in answer order (priorities[entry.priority].append(entry)).
TierOf(ans, pri) == SelectSeq(ans, LAMBDA e : e.priority = pri)

\* sorted(priorities.items()): the tiers as [pri, entries], by ascending priority.
priorities_items(ans) ==
    LET keys == sorted_keys({ans[i].priority : i \in 1..Len(ans)})
    IN [k \in 1..Len(keys) |-> [pri |-> keys[k], entries |-> TierOf(ans, keys[k])]]

\* One insertion of the stable sort: e goes after every entry of weight <= its own.
InsertByWeight(srt, e) ==
    LET k == Cardinality({i \in 1..Len(srt) : srt[i].weight <= e.weight})
    IN SubSeq(srt, 1, k) \o <<e>> \o SubSeq(srt, k + 1, Len(srt))

\* entries.sort(key=lambda ent: ent.weight): ascending and stable.
RECURSIVE SortByWeight(_)
SortByWeight(es) ==
    IF es = <<>> THEN <<>>
    ELSE InsertByWeight(SortByWeight(SubSeq(es, 1, Len(es) - 1)), es[Len(es)])

\* sum(ent.weight for ent in entries)
RECURSIVE SumWeights(_)
SumWeights(es) == IF es = <<>> THEN 0 ELSE es[1].weight + SumWeights(Tail(es))

\* csum after the i-th entry of the walk.
CumSum(es, i) == SumWeights(SubSeq(es, 1, i))

\* Mutant of WalkIndex: the walk breaks at "csum > r".
WalkIndex_strict(es, r) ==
    IF \E i \in 1..Len(es) : CumSum(es, i) > r
    THEN CHOOSE i \in 1..Len(es) :
            CumSum(es, i) > r /\ \A j \in 1..(i - 1) : CumSum(es, j) <= r
    ELSE Len(es)

\* The for loop of the walk: the index at which "csum >= r" breaks; without a
\* break the loop variable is left at the last index.
WalkIndex(es, r) ==
    IF \E i \in 1..Len(es) : CumSum(es, i) >= r
    THEN CHOOSE i \in 1..Len(es) :
            CumSum(es, i) >= r /\ \A j \in 1..(i - 1) : CumSum(es, j) < r
    ELSE Len(es)

\* del entries[i]
RemoveAt(es, i) == SubSeq(es, 1, i - 1) \o SubSeq(es, i + 1, Len(es))

\* The values randint(0, total_weight) can return.
RandInt(total_weight) == 0..total_weight

\* "while entries:" with the draws taken from rs: [out, rs] where rs is what is left.
RECURSIVE WalkTier(_, _, _)
WalkTier(es, total_weight, rs) ==
    IF es = <<>> THEN [out |-> <<>>, rs |-> rs]
    ELSE LET i == WalkIndex(es, Head(rs))
             rest == WalkTier(RemoveAt(es, i), total_weight - es[i].weight, Tail(rs))
         IN [out |-> <<es[i]>> \o rest.out, rs |-> rest.rs]

\* The draw sequences one tier's walk can see.
RECURSIVE TierDraws(_, _)
TierDraws(es, total_weight) ==
    IF es = <<>> THEN {<<>>}
    ELSE UNION {
           LET i == WalkIndex(es, r)
           IN {<<r>> \o t : t \in TierDraws(RemoveAt(es, i), total_weight - es[i].weight)}
           : r \in RandInt(total_weight)}

\* "for pri, entries in sorted(priorities.items())" with the draws taken from rs.
RECURSIVE SortTiers(_, _)
SortTiers(items, rs) ==
    IF items = <<>> THEN <<>>
    ELSE LET es == items[1].entries
         IN IF Len(es) = 1
            THEN <<es[1]>> \o SortTiers(Tail(items), rs)
            ELSE LET srt == SortByWeight(es)
                     w == WalkTier(srt, SumWeights(srt), rs)
                 IN w.out \o SortTiers(Tail(items), w.rs)

\* The draw sequences sort_rfc2782 can see on these tiers.
RECURSIVE ItemsDraws(_)
ItemsDraws(items) ==
    IF items = <<>> THEN {<<>>}
    ELSE LET es == items[1].entries
             here == IF Len(es) = 1 THEN {<<>>}
                     ELSE TierDraws(SortByWeight(es), SumWeights(es))
         IN {a \o b : a \in here, b \in ItemsDraws(Tail(items))}

\* sort_rfc2782(ans), its random draws being rs in order.
sort_rfc2782(ans, rs) == SortTiers(priorities_items(ans), rs)

(***************************************************************************)
(* _get_solved_entries                                                     *)
(***************************************************************************)
\* Mutant of HasFallback: the port is compared without lower().
HasFallback_literal(hp) ==
    /\ hp.target # <<>>
    /\ hp.target[1] # <<>>
    /\ hp.port # <<"S", "R", "V">>

\* "if hp.target and hp.port.lower() != 'srv'"
HasFallback(hp) ==
    /\ hp.target # <<>>
    /\ hp.target[1] # <<>>
    /\ Lower(hp.port) # SRV_lower

\* Mutant of RootAbort: any root target among the answers aborts.
RootAbort_any(entries) == \E k \in 1..Len(entries) : entries[k].target = <<Dot>>

\* "len(entries) == 1 and str(entries[0].target) == '.'"
RootAbort(entries) == Len(entries) = 1 /\ entries[1].target = <<Dot>>

\* HostPort(host=str(entry.target).rstrip("."), port=str(entry.port))
SolvedEntry(entry) ==
    HostPort(RStripDot(entry.target), IntToStr(entry.port), FALSE, <<>>)

\* _get_solved_entries(hp, entries), the draws of the sort being rs.
get_solved_entries(hp, entries, rs) ==
    IF entries = <<>>
    THEN IF HasFallback(hp)
         THEN <<HostPort(hp.target[1], hp.port, FALSE, <<>>)>>
         ELSE <<>>
    ELSE IF RootAbort(entries)
    THEN <<>>
    ELSE LET srt == sort_rfc2782(entries, rs)
         IN [k \in 1..Len(srt) |-> SolvedEntry(srt[k])]

(***************************************************************************)
(* _return_params                                                          *)
(***************************************************************************)
\* Mutant of return_params: the ports are joined in reverse order.
return_params_reversed_ports(p, hps) ==
    IF hps = <<>>
    THEN ExhaustedError
    ELSE Returned([k \in DOMAIN p \cup {"host", "port"} |->
            CASE k = "host" -> Join([i \in 1..Len(hps) |-> hps[i].host], Comma)
              [] k = "port" -> Join([i \in 1..Len(hps) |-> hps[Len(hps) + 1 - i].port], Comma)
              [] OTHER -> p[k]])

\* Mutant of return_params: an empty list is not refused.
return_params_no_check(p, hps) ==
    Returned([k \in DOMAIN p \cup {"host", "port"} |->
            CASE k = "host" -> Join([i \in 1..Len(hps) |-> hps[i].host], Comma)
              [] k = "port" -> Join([i \in 1..Len(hps) |-> hps[i].port], Comma)
              [] OTHER -> p[k]])

\* out = params.copy(); out["host"] = ...; out["port"] = ...
return_params(p, hps) ==
    IF hps = <<>>
    THEN ExhaustedError
    ELSE Returned([k \in DOMAIN p \cup {"host", "port"} |->
            CASE k = "host" -> Join([i \in 1..Len(hps) |-> hps[i].host], Comma)
              [] k = "port" -> Join([i \in 1..Len(hps) |-> hps[i].port], Comma)
              [] OTHER -> p[k]])

(***************************************************************************)
(* _resolve_srv / _resolve_srv_async and the resolver.                     *)
(* A reply of the resolver is [failed, ans, rs]: failed is a DNSException, *)
(* ans the answers, rs the random draws the sort of ans then takes.        *)
(***************************************************************************)
Reply(failed, ans, rs) == [failed |-> failed, ans |-> ans, rs |-> rs]

\* "try: ans = resolver.resolve(hp.host, 'SRV') except DNSException: ans = ()"
resolve_srv(hp, reply) ==
    get_solved_entries(hp, IF reply.failed THEN <<>> ELSE reply.ans, reply.rs)

\* "try: ans = await async_resolver.resolve(hp.host, 'SRV') except DNSException: ans = ()"
resolve_srv_async(hp, reply) ==
    get_solved_entries(hp, IF reply.failed THEN <<>> ELSE reply.ans, reply.rs)

(***************************************************************************)
(* resolve(): the blocking call, as a function of the resolver's replies.  *)
(***************************************************************************)
\* "for hp in attempts": hps.extend(self._resolve_srv(hp)) or hps.append(hp).
RECURSIVE ResolveLoop(_, _, _, _)
ResolveLoop(attempts, i, hps, o) ==
    IF i > Len(attempts) THEN hps
    ELSE IF attempts[i].totry
    THEN ResolveLoop(attempts, i + 1, hps \o resolve_srv(attempts[i], o[i]), o)
    ELSE ResolveLoop(attempts, i + 1, Append(hps, attempts[i]), o)

\* The names resolve() asks the resolver for, in order.
QueriedHosts(attempts) ==
    LET flagged == SelectSeq(attempts, LAMBDA hp : hp.totry)
    IN [k \in 1..Len(flagged) |-> flagged[k].host]

\* resolve(params): [res, queries].
resolve(p, environ, o) ==
    LET ga == get_attempts(p, environ)
    IN IF ga.raised THEN [res |-> ga.error, queries |-> <<>>]
       ELSE IF ga.attempts = <<>> THEN [res |-> Returned(p), queries |-> <<>>]
       ELSE [res |-> return_params(p, ResolveLoop(ga.attempts, 1, <<>>, o)),
             queries |-> QueriedHosts(ga.attempts)]

(***************************************************************************)
(* resolve_async(): the code between two awaits runs without interruption. *)
(***************************************************************************)
\* Mutant of AsyncRun: a pass-through record is not appended.
RECURSIVE AsyncRun_dropping(_, _, _, _)
AsyncRun_dropping(p, attempts, i, hps) ==
    IF i > Len(attempts)
    THEN [pc |-> "done", i |-> i, hps |-> hps, res |-> return_params(p, hps)]
    ELSE IF attempts[i].totry
    THEN [pc |-> "await", i |-> i, hps |-> hps, res |-> NotRun]
    ELSE AsyncRun_dropping(p, attempts, i + 1, hps)

\* The loop of resolve_async from position i up to the next await or the return.
RECURSIVE AsyncRun(_, _, _, _)
AsyncRun(p, attempts, i, hps) ==
    IF i > Len(attempts)
    THEN [pc |-> "done", i |-> i, hps |-> hps, res |-> return_params(p, hps)]
    ELSE IF attempts[i].totry
    THEN [pc |-> "await", i |-> i, hps |-> hps, res |-> NotRun]
    ELSE AsyncRun(p, attempts, i + 1, Append(hps, attempts[i]))

(***************************************************************************)
(* Inputs.                                                                 *)
(***************************************************************************)
PlainHost == <<"d", "b">>

SrvHost == <<"_", "p", ".", "_", "t", ".", "d", ".", "e">>

\* Names that begin like an SRV name and do not match the pattern.
NearMissHosts ==
    {<<"_", "p", ".", "d">>,
     <<"_", ".", "_", "t", ".", "d">>,
     <<"_", "p", ".", "_", "t", ".">>}

HostPool == {PlainHost, SrvHost}

PlainPort == <<"5", "4", "3", "2">>

SrvPort == <<"S", "R", "V">>

LowerSrvPort == <<"s", "r", "v">>

MixedSrvPort == <<"S", "r", "v">>

PortPool == {PlainPort, SrvPort}

SeqsUpTo(S, n) == UNION {[1..k -> S] : k \in 1..n}

HostArgs ==
    {Join(l, Comma) : l \in SeqsUpTo(HostPool, MaxHosts) \cup {<<h>> : h \in NearMissHosts}}

PortArgs ==
    {Join(l, Comma) : l \in SeqsUpTo(PortPool, MaxHosts + 1) \cup {<<MixedSrvPort>>}}

HostAddr == <<"1", ".", "2">>

Absent == <<>>

Opt(S) == {Absent} \cup {<<x>> : x \in S}

\* A parameter set: dbname always, host, port and hostaddr when given.
MkParams(h, po, ha) ==
    LET keys == {"dbname"} \cup (IF h # Absent THEN {"host"} ELSE {})
                           \cup (IF po # Absent THEN {"port"} ELSE {})
                           \cup (IF ha # Absent THEN {"hostaddr"} ELSE {})
    IN [k \in keys |->
          CASE k = "host" -> h[1]
            [] k = "port" -> po[1]
            [] k = "hostaddr" -> ha[1]
            [] OTHER -> <<"x">>]

\* Parameter sets with every host and port list, hostaddr absent.
ListParamSets ==
    {MkParams(h, po, Absent) : h \in Opt(HostArgs), po \in Opt(PortArgs)}

SingleHostArgs == {PlainHost, SrvHost}

FewPortArgs == {PlainPort, SrvPort, Join(<<PlainPort, SrvPort>>, Comma)}

\* Parameter sets of one host with hostaddr absent, empty or set.
AddrParamSets ==
    {MkParams(h, po, ha) : h \in Opt(SingleHostArgs), po \in Opt(FewPortArgs),
                           ha \in Opt({<<>>, HostAddr})}

\* os.environ: nothing set, PGHOST and PGPORT set, or PGHOSTADDR set.
Environs ==
    {EmptyDict,
     ("PGHOST" :> SrvHost) @@ ("PGPORT" :> PlainPort),
     ("PGHOSTADDR" :> HostAddr)}

RootRR == SRV(1, 0, <<Dot>>, 5432)

RRa == SRV(0, 0, <<"a", Dot>>, 5433)

RRb == SRV(1, 1, <<"b", Dot>>, 12)

SrvAnswerSets == {<<RootRR>>, <<RRa>>, <<RootRR, RRb>>}

FailReply == Reply(TRUE, <<>>, <<>>)

SrvReplies ==
    {FailReply} \cup
    UNION {{Reply(FALSE, a, r) : r \in ItemsDraws(priorities_items(a))} : a \in SrvAnswerSets}

Positions == 1..MaxHosts

(***************************************************************************)
(* State.                                                                  *)
(***************************************************************************)
VARIABLES
    params,     \* the parameter set given to resolve() and resolve_async()
    environ,    \* os.environ
    dns,        \* per input position, the resolver's reply once one was given
    sres,       \* resolve(): its result
    squeries,   \* resolve(): the names it asked the resolver for
    apc,        \* resolve_async(): "init", "await" or "done"
    aattempts,  \* resolve_async(): attempts
    ai,         \* resolve_async(): the position whose lookup is awaited
    ahps,       \* resolve_async(): hps
    aqueries,   \* resolve_async(): the names it asked the resolver for
    ares,       \* resolve_async(): its result
    sel_hp,     \* _resolve_srv: hp
    sel_reply,  \* _resolve_srv: what the resolver answers for hp.host
    sel_entries,\* _get_solved_entries: entries
    spc,        \* "query", "start" (of _get_solved_entries), "tiers", "walk", "done"
    items,      \* sort_rfc2782: the tiers of sorted(priorities.items()) still to do
    entries,    \* sort_rfc2782: entries of the tier being walked
    total_weight, \* sort_rfc2782: total_weight
    out,        \* sort_rfc2782: out
    solved,     \* _get_solved_entries: the list returned
    draw        \* the last draw of the walk: <<>> or <<[entries, total_weight, r, i]>>

callVars == <<params, environ, dns, sres, squeries, apc, aattempts, ai, ahps, aqueries, ares>>

selVars == <<sel_hp, sel_reply, sel_entries, spc, items, entries, total_weight, out, solved, draw>>

vars == <<callVars, selVars>>

CallIdle ==
    /\ params = EmptyDict
    /\ environ = EmptyDict
    /\ dns = [i \in Positions |-> <<>>]
    /\ sres = NotRun
    /\ squeries = <<>>
    /\ apc = "off"
    /\ aattempts = <<>>
    /\ ai = 0
    /\ ahps = <<>>
    /\ aqueries = <<>>
    /\ ares = NotRun

SelIdle ==
    /\ sel_hp = HostPort(<<>>, <<>>, FALSE, <<>>)
    /\ sel_reply = FailReply
    /\ sel_entries = <<>>
    /\ spc = "off"
    /\ items = <<>>
    /\ entries = <<>>
    /\ total_weight = 0
    /\ out = <<>>
    /\ solved = <<>>
    /\ draw = <<>>

(***************************************************************************)
(* Specification Spec: one call of resolve() and one of resolve_async()    *)
(* on the same parameters, environment, replies and draws.                 *)
(***************************************************************************)
Init ==
    /\ \/ params \in ListParamSets /\ environ = EmptyDict
       \/ params \in AddrParamSets /\ environ \in Environs
    /\ dns = [i \in Positions |-> <<>>]
    /\ sres = NotRun
    /\ squeries = <<>>
    /\ apc = "init"
    /\ aattempts = <<>>
    /\ ai = 0
    /\ ahps = <<>>
    /\ aqueries = <<>>
    /\ ares = NotRun
    /\ SelIdle

\* The replies resolve() can get for positions i..MaxHosts: the one already
\* given for a position, any reply for a flagged position not asked yet.
RECURSIVE ReplyChoicesFrom(_, _)
ReplyChoicesFrom(attempts, i) ==
    IF i > MaxHosts THEN {<<>>}
    ELSE LET here == IF dns[i] # <<>> THEN {dns[i][1]}
                     ELSE IF i <= Len(attempts) /\ attempts[i].totry THEN SrvReplies
                     ELSE {FailReply}
         IN {<<x>> \o t : x \in here, t \in ReplyChoicesFrom(attempts, i + 1)}

ReplyChoices(attempts) == ReplyChoicesFrom(attempts, 1)

\* resolve(params), start to end: the calling thread blocks on every lookup.
Resolve ==
    /\ sres = NotRun
    /\ LET attempts == get_attempts(params, environ).attempts
       IN \E o \in ReplyChoices(attempts) :
            LET r == resolve(params, environ, o)
            IN /\ sres' = r.res
               /\ squeries' = r.queries
               /\ dns' = [i \in Positions |->
                            IF i <= Len(attempts) /\ attempts[i].totry
                            THEN <<o[i]>> ELSE dns[i]]
    /\ UNCHANGED <<params, environ, apc, aattempts, ai, ahps, aqueries, ares, selVars>>

\* resolve_async(params) from its start to its first await, or to its end.
ResolveAsyncStart ==
    /\ apc = "init"
    /\ LET ga == get_attempts(params, environ)
       IN IF ga.raised
          THEN /\ ares' = ga.error
               /\ apc' = "done"
               /\ UNCHANGED <<aattempts, ai, ahps, aqueries>>
          ELSE IF ga.attempts = <<>>
          THEN /\ ares' = Returned(params)
               /\ apc' = "done"
               /\ UNCHANGED <<aattempts, ai, ahps, aqueries>>
          ELSE LET run == AsyncRun(params, ga.attempts, 1, <<>>)
               IN /\ aattempts' = ga.attempts
                  /\ apc' = run.pc
                  /\ ai' = run.i
                  /\ ahps' = run.hps
                  /\ ares' = run.res
                  /\ aqueries' = IF run.pc = "await"
                                 THEN Append(aqueries, ga.attempts[run.i].host)
                                 ELSE aqueries
    /\ UNCHANGED <<params, environ, dns, sres, squeries, selVars>>

\* The awaited lookup completes: resolve_async goes on to its next await or its end.
ResolveAsyncResume ==
    /\ apc = "await"
    /\ \E reply \in SrvReplies :
         /\ dns[ai] # <<>> => reply = dns[ai][1]
         /\ dns' = [dns EXCEPT ![ai] = <<reply>>]
         /\ LET got == resolve_srv_async(aattempts[ai], reply)
                run == AsyncRun(params, aattempts, ai + 1, ahps \o got)
            IN /\ apc' = run.pc
               /\ ai' = run.i
               /\ ahps' = run.hps
               /\ ares' = run.res
               /\ aqueries' = IF run.pc = "await"
                              THEN Append(aqueries, aattempts[run.i].host)
                              ELSE aqueries
    /\ UNCHANGED <<params, environ, sres, squeries, aattempts, selVars>>

Next == Resolve \/ ResolveAsyncStart \/ ResolveAsyncResume

Spec == Init /\ [][Next]_vars

(***************************************************************************)
(* Specification SpecSel: _resolve_srv on one flagged record, the sort of  *)
(* the answers taken one tier and one draw at a time.                      *)
(***************************************************************************)
E0 == SRV(10, 0, <<Dot>>, 5432)

E1 == SRV(10, 10, <<"a", Dot>>, 5433)

E2 == SRV(10, 90, <<"b", Dot>>, 5434)

E3 == SRV(20, 10, <<"c", Dot>>, 5432)

E4 == SRV(20, 10, <<"d">>, 7)

SelPool == {E0, E1, E2, E3, E4}

\* The sequences of at most n distinct elements of S (an RRset holds no duplicates).
RECURSIVE InjSeqs(_, _)
InjSeqs(S, n) ==
    IF n = 0 THEN {<<>>}
    ELSE {<<>>} \cup UNION {{<<x>> \o t : t \in InjSeqs(S \ {x}, n - 1)} : x \in S}

\* The flagged records _get_attempts makes of these hosts and ports.
SelHostPorts ==
    {hp \in {Classify(h, po) : h \in {PlainHost, SrvHost},
                               po \in {PlainPort, SrvPort, LowerSrvPort}} : hp.totry}

\* Every reply of up to MaxAns answers.
SelReplies == {FailReply} \cup {Reply(FALSE, a, <<>>) : a \in InjSeqs(SelPool, MaxAns)}

\* A failure, no answer, or one answer.
ShortReplies ==
    {FailReply, Reply(FALSE, <<>>, <<>>)} \cup {Reply(FALSE, <<e>>, <<>>) : e \in SelPool}

InitSel ==
    /\ CallIdle
    /\ \/ sel_hp \in SelHostPorts /\ sel_reply \in ShortReplies
       \/ sel_hp = Classify(SrvHost, PlainPort) /\ sel_reply \in SelReplies
    /\ sel_entries = <<>>
    /\ spc = "query"
    /\ items = <<>>
    /\ entries = <<>>
    /\ total_weight = 0
    /\ out = <<>>
    /\ solved = <<>>
    /\ draw = <<>>

\* _resolve_srv: the lookup ends, a DNSException leaving ans = ().
ResolveSrv ==
    /\ spc = "query"
    /\ sel_entries' = IF sel_reply.failed THEN <<>> ELSE sel_reply.ans
    /\ spc' = "start"
    /\ UNCHANGED <<sel_hp, sel_reply, items, entries, total_weight, out, solved, draw, callVars>>

\* _get_solved_entries up to its return or its call of sort_rfc2782.
GetSolvedEntries ==
    /\ spc = "start"
    /\ IF sel_entries = <<>>
       THEN /\ solved' = IF HasFallback(sel_hp)
                         THEN <<HostPort(sel_hp.target[1], sel_hp.port, FALSE, <<>>)>>
                         ELSE <<>>
            /\ spc' = "done"
            /\ UNCHANGED items
       ELSE IF RootAbort(sel_entries)
       THEN /\ solved' = <<>>
            /\ spc' = "done"
            /\ UNCHANGED items
       ELSE /\ items' = priorities_items(sel_entries)
            /\ spc' = "tiers"
            /\ UNCHANGED solved
    /\ UNCHANGED <<sel_hp, sel_reply, sel_entries, entries, total_weight, out, draw, callVars>>

\* sort_rfc2782: the next tier; one entry is emitted as it is, more are sorted by weight.
NextTier ==
    /\ spc = "tiers"
    /\ items # <<>>
    /\ LET es == items[1].entries
       IN IF Len(es) = 1
          THEN /\ out' = Append(out, es[1])
               /\ UNCHANGED <<entries, total_weight, spc>>
          ELSE /\ entries' = SortByWeight(es)
               /\ total_weight' = SumWeights(es)
               /\ spc' = "walk"
               /\ UNCHANGED out
    /\ items' = Tail(items)
    /\ UNCHANGED <<sel_hp, sel_reply, sel_entries, solved, draw, callVars>>

\* sort_rfc2782: one turn of "while entries".
Draw ==
    /\ spc = "walk"
    /\ \E r \in RandInt(total_weight) :
         LET i == WalkIndex(entries, r)
         IN /\ out' = Append(out, entries[i])
            /\ total_weight' = total_weight - entries[i].weight
            /\ entries' = RemoveAt(entries, i)
            /\ spc' = IF Len(entries) = 1 THEN "tiers" ELSE "walk"
            /\ draw' = <<[entries |-> entries, total_weight |-> total_weight,
                          r |-> r, i |-> i, pos |-> Len(out) + 1]>>
    /\ UNCHANGED <<sel_hp, sel_reply, sel_entries, items, solved, callVars>>

\* sort_rfc2782 returns out; _get_solved_entries returns the records made of it.
SortReturn ==
    /\ spc = "tiers"
    /\ items = <<>>
    /\ solved' = [k \in 1..Len(out) |-> SolvedEntry(out[k])]
    /\ spc' = "done"
    /\ UNCHANGED <<sel_hp, sel_reply, sel_entries, items, entries, total_weight, out, draw,
                   callVars>>

NextSel == ResolveSrv \/ GetSolvedEntries \/ NextTier \/ Draw \/ SortReturn

SpecSel == InitSel /\ [][NextSel]_vars

(***************************************************************************)
(* Properties of the selector (specification SpecSel).                      *)
(***************************************************************************)
\* The number of positions of seq that hold x.
Count(seq, x) == Cardinality({k \in 1..Len(seq) : seq[k] = x})

IsPermutation(a, b) ==
    /\ Len(a) = Len(b)
    /\ \A k \in 1..Len(b) : Count(a, b[k]) = Count(b, b[k])

SelDone == spc = "done"

\* The record carries a parsed target.
TargetParsed(hp) == hp.target # <<>>

\* C6 as stated: after a lookup with zero answers or a failure, one record
\* {host: target, port: original port} is emitted when the record carries a
\* parsed target and its port is not the literal string "SRV"; nothing otherwise.
C6_FallbackUnlessLiteralSRV ==
    (SelDone /\ sel_entries = <<>>) =>
        IF TargetParsed(sel_hp) /\ sel_hp.port # SrvPort
        THEN /\ Len(solved) = 1
             /\ solved[1].host = sel_hp.target[1]
             /\ solved[1].port = sel_hp.port
        ELSE solved = <<>>

\* C6 amended: after a lookup with zero answers or a failure, one record
\* {host: target, port: original port} is emitted when the record carries a
\* parsed target and its port does not equal "SRV" case-insensitively; nothing
\* otherwise.
C6_FallbackUnlessSrvPort ==
    (SelDone /\ sel_entries = <<>>) =>
        IF TargetParsed(sel_hp) /\ Lower(sel_hp.port) # Lower(SrvPort)
        THEN /\ Len(solved) = 1
             /\ solved[1].host = sel_hp.target[1]
             /\ solved[1].port = sel_hp.port
        ELSE solved = <<>>

\* C6 witness: a failed lookup of _p._t.d.e with port 5432 has emitted d.e:5432.
C6_Witness ==
    /\ SelDone
    /\ sel_reply.failed
    /\ sel_hp.host = SrvHost
    /\ sel_hp.port = PlainPort
    /\ solved = <<HostPort(<<"d", Dot, "e">>, PlainPort, FALSE, <<>>)>>

IsRootAnswer(e) == e.target = <<Dot>>

\* C7: for a non-empty answer set nothing is emitted if and only if it is exactly
\* one answer of target "."; two or more answers emit one record per answer,
\* also for an answer of target "." (its host is the empty name).
C7_RootAbort ==
    (SelDone /\ sel_entries # <<>>) =>
        /\ (solved = <<>>) <=> (Len(sel_entries) = 1 /\ IsRootAnswer(sel_entries[1]))
        /\ Len(sel_entries) >= 2 =>
              /\ Len(solved) = Len(sel_entries)
              /\ \A k \in 1..Len(sel_entries) :
                    Count(solved, SolvedEntry(sel_entries[k])) = 1

\* C7 witness: three answers, one of them the root, have given three records,
\* for a record whose target is parsed.
C7_Witness ==
    /\ SelDone
    /\ Len(sel_entries) = 3
    /\ \E k \in 1..3 : IsRootAnswer(sel_entries[k])
    /\ Len(solved) = 3
    /\ \E k \in 1..3 : solved[k].host = <<>>
    /\ TargetParsed(sel_hp)

\* sort_rfc2782 was called and has returned.
SortReturned == SelDone /\ sel_entries # <<>> /\ ~RootAbort(sel_entries)

\* C8: sort_rfc2782 returns a permutation of the answers in which every record of
\* a lower priority number precedes every record of a higher one.
C8_PriorityOrder ==
    SortReturned =>
        /\ IsPermutation(out, sel_entries)
        /\ \A i, j \in 1..Len(out) : out[i].priority < out[j].priority => i < j

\* C8 witness: three answers given with a priority-20 answer before the priority-10
\* ones have been returned.
C8_Witness ==
    /\ SortReturned
    /\ Len(sel_entries) = 3
    /\ sel_entries[1].priority = 20
    /\ sel_entries[2].priority = 10
    /\ sel_entries[3].priority = 10
    /\ out[3] = sel_entries[1]

Weights(es) == [k \in 1..Len(es) |-> es[k].weight]

Ascending(ws) == \A i, j \in 1..Len(ws) : i < j => ws[i] <= ws[j]

\* The answers still in the tiers not yet reached.
RECURSIVE LenItems(_)
LenItems(its) == IF its = <<>> THEN 0 ELSE Len(its[1].entries) + LenItems(Tail(its))

\* C10: in the walk the remaining entries are in ascending weight order and
\* total_weight is the sum of their weights; a draw r is in 0..total_weight and
\* selects the first entry whose cumulative weight reaches r, which exists; each
\* draw moves exactly one entry to the output; a weight-0 entry is selected only
\* for r = 0 as first of the walk; for weights 0, 10, 90 the selected entry is the
\* weight-0 one for r = 0, the weight-10 one for 1..10, the weight-90 one for 11..100.
C10_WeightedWalk ==
    /\ spc = "walk" =>
          /\ entries # <<>>
          /\ Ascending(Weights(entries))
          /\ total_weight = SumWeights(entries)
    /\ spc \in {"tiers", "walk"} =>
          Len(out) + Len(entries) + LenItems(items) = Len(sel_entries)
    /\ draw # <<>> =>
          LET d == draw[1]
              ws == Weights(d.entries)
          IN /\ Len(d.entries) >= 1
             /\ Ascending(ws)
             /\ d.total_weight = SumWeights(d.entries)
             /\ d.r \in 0..d.total_weight
             /\ d.i \in 1..Len(d.entries)
             /\ CumSum(d.entries, d.i) >= d.r
             /\ \A j \in 1..(d.i - 1) : CumSum(d.entries, j) < d.r
             /\ out[d.pos] = d.entries[d.i]
             /\ ws[d.i] = 0 => (d.r = 0 /\ d.i = 1)
             /\ ws = <<0, 10, 90>> =>
                   /\ d.r = 0 => ws[d.i] = 0
                   /\ d.r \in 1..10 => ws[d.i] = 10
                   /\ d.r \in 11..100 => ws[d.i] = 90

\* C10 witness: in a tier of weights 0, 10, 90 the draw r = 0 has selected the
\* weight-0 entry.
C10_Witness ==
    /\ draw # <<>>
    /\ Weights(draw[1].entries) = <<0, 10, 90>>
    /\ draw[1].r = 0
    /\ draw[1].i = 1
    /\ out[draw[1].pos].weight = 0

(***************************************************************************)
(* Properties of resolve() and resolve_async() (specification Spec).        *)
(***************************************************************************)
Finished(res) == res.kind # "none"

\* The host and port values in effect: the parameter's, else the environment's.
InHosts == Split(Get(params, "host", Get(environ, "PGHOST", <<>>)), Comma)

InPortsGiven == Split(Get(params, "port", Get(environ, "PGPORT", <<>>)), Comma)

\* The port list after a single port was broadcast to the hosts.
InPorts ==
    IF Len(InPortsGiven) = 1 THEN [i \in 1..Len(InHosts) |-> InPortsGiven[1]]
    ELSE InPortsGiven

LengthsDisagree == Len(InPorts) # Len(InHosts)

\* hostaddr in effect is non-empty.
HostAddrInEffect == Get(params, "hostaddr", Get(environ, "PGHOSTADDR", <<>>)) # <<>>

\* h is _service._proto.target: two leading labels that begin with an underscore
\* and hold one more character at least, then a non-empty rest.
IsSrvName(h) ==
    LET labels == Split(h, Dot)
    IN /\ Len(labels) >= 3
       /\ \A k \in 1..2 : Len(labels[k]) >= 2 /\ labels[k][1] = "_"
       /\ Join(SubSeq(labels, 3, Len(labels)), Dot) # <<>>

IsSrvPort(po) == Lower(po) = Lower(SrvPort)

\* The classifier's candidates for the parameters.
Attempts == get_attempts(params, environ).attempts

\* SRV processing applies: the classifier returned candidates.
SrvTriggered == Attempts # <<>>

\* The (host, port) pairs a record list reads as.
PairsOf(hps) == [k \in 1..Len(hps) |-> <<hps[k].host, hps[k].port>>]

\* What input position i of the candidates att contributes: its own pair when it
\* is a pass-through, the selector's records for the resolver's reply when it is
\* flagged.
GroupPairs(att, hosts, ports, i) ==
    IF att[i].totry
    THEN PairsOf(resolve_srv(att[i], dns[i][1]))
    ELSE <<<<hosts[i], ports[i]>>>>

\* The groups of the positions in input order, one after the other.
AllGroups(att, hosts, ports) ==
    LET g == [i \in 1..Len(att) |-> GroupPairs(att, hosts, ports, i)]
        cat[i \in 0..Len(att)] == IF i = 0 THEN <<>> ELSE cat[i - 1] \o g[i]
    IN cat[Len(att)]

\* The pairs the result's comma-split host and port lists read as.
ResultPairs(res) ==
    LET hs == Split(res.params["host"], Comma)
        ps == Split(res.params["port"], Comma)
    IN [k \in 1..Len(hs) |-> <<hs[k], ps[k]>>]

Rewritten(res) == res.kind = "params" /\ SrvTriggered

C2_Exhausted ==
    (Finished(sres) \/ Finished(ares)) =>
        LET att == Attempts
            hosts == InHosts
            ports == InPorts
            allEmpty == \A i \in 1..Len(att) :
                            att[i].totry /\ GroupPairs(att, hosts, ports, i) = <<>>
        IN \A res \in {sres, ares} :
              Finished(res) =>
                 /\ (res = ExhaustedError) <=> (att # <<>> /\ allEmpty)
                 /\ (att # <<>> /\ ~allEmpty) => res.kind = "params"
                 /\ (att = <<>> /\ res.kind = "error") => res.msg # ExhaustedError.msg

\* C2 witness: two flagged positions, the first without a fallback target, none
\* yielding a record, and both calls have failed with the error.
C2_Witness ==
    /\ sres = ExhaustedError
    /\ ares = ExhaustedError
    /\ Len(Attempts) = 2
    /\ Attempts[1].target = <<>>
    /\ Attempts[2].target # <<>>

\* C3: with hostaddr set and non-empty in the parameter set the classifier
\* returns no candidates, no SRV query is issued, and the calls return the
\* parameter set unchanged, raising nothing.
C3_HostAddr ==
    ("hostaddr" \in DOMAIN params /\ params["hostaddr"] # <<>>) =>
        /\ Attempts = <<>>
        /\ ~get_attempts(params, environ).raised
        /\ squeries = <<>> /\ aqueries = <<>>
        /\ \A i \in Positions : dns[i] = <<>>
        /\ \A res \in {sres, ares} : Finished(res) => res = Returned(params)

\* C3 witness: hostaddr 1.2 with host _p._t.d.e and port SRV; both calls returned.
C3_Witness ==
    /\ "hostaddr" \in DOMAIN params
    /\ params["hostaddr"] = HostAddr
    /\ "host" \in DOMAIN params
    /\ params["host"] = SrvHost
    /\ "port" \in DOMAIN params
    /\ params["port"] = SrvPort
    /\ sres = Returned(params)
    /\ ares = Returned(params)

\* What a call does on a length mismatch: the mismatch error, and no query.
FailsWithMismatch ==
    /\ squeries = <<>> /\ aqueries = <<>>
    /\ \A i \in Positions : dns[i] = <<>>
    /\ \A res \in {sres, ares} :
          Finished(res) => res = MismatchError(Len(InHosts), Len(InPorts))

\* C4 as stated: whenever the host and port lists disagree in length after a single
\* port was broadcast, the call fails with the mismatch error before any query.
C4_MismatchAlways == LengthsDisagree => FailsWithMismatch

\* C4 amended: whenever hostaddr is empty or absent (in the parameters and, when
\* absent there, in PGHOSTADDR) and the host and port lists disagree in length
\* after a single port was broadcast, the call fails with the mismatch error
\* before any query; a list of two or more ports is never broadcast or truncated.
C4_MismatchWithoutHostAddr ==
    (LengthsDisagree /\ ~HostAddrInEffect) => FailsWithMismatch

\* C4 witness: one SRV-named host with three ports, no hostaddr; both calls have
\* failed with the mismatch error.
C4_Witness ==
    /\ ~HostAddrInEffect
    /\ InHosts = <<SrvHost>>
    /\ Len(InPortsGiven) = 3
    /\ sres = MismatchError(1, 3)
    /\ ares = MismatchError(1, 3)

\* What the identity law promises: the parameters unchanged, no query.
ReturnsUnchanged ==
    /\ squeries = <<>> /\ aqueries = <<>>
    /\ \A i \in Positions : dns[i] = <<>>
    /\ \A res \in {sres, ares} : Finished(res) => res = Returned(params)

\* The host and port lists the parameter set itself holds.
OwnHosts == Split(Get(params, "host", <<>>), Comma)

OwnPorts == Split(Get(params, "port", <<>>), Comma)

\* C5 as stated: a parameter set with no SRV-pattern host and no SRV port is
\* returned unchanged, with no query and no error.
C5_IdentityAlways ==
    (/\ \A k \in 1..Len(OwnHosts) : ~IsSrvName(OwnHosts[k])
     /\ \A k \in 1..Len(OwnPorts) : ~IsSrvPort(OwnPorts[k]))
        => ReturnsUnchanged

\* C5 amended: when the host and port values in effect (the parameter's, or PGHOST
\* and PGPORT where the parameter is absent) hold no SRV-pattern host and no SRV
\* port, and their list lengths agree after a single port was broadcast, the
\* parameter set is returned unchanged, with no query and no error.
C5_IdentityInEffect ==
    (/\ \A k \in 1..Len(InHosts) : ~IsSrvName(InHosts[k])
     /\ \A k \in 1..Len(InPortsGiven) : ~IsSrvPort(InPortsGiven[k])
     /\ ~LengthsDisagree)
        => ReturnsUnchanged

\* C5 witness: host _p.d, which only begins like an SRV name, with port 5432 and
\* no hostaddr; both calls have returned the parameters.
C5_Witness ==
    /\ ~HostAddrInEffect
    /\ InHosts = <<<<"_", "p", Dot, "d">>>>
    /\ InPortsGiven = <<PlainPort>>
    /\ sres = Returned(params)
    /\ ares = Returned(params)

\* The names of the flagged positions up to position n, in input order.
FlaggedHostsUpTo(attempts, n) == QueriedHosts(SubSeq(attempts, 1, n))

\* C9: on the same parameters, replies and draws the two calls end with the same
\* result and have issued the same queries in the same order; resolve_async has
\* one lookup in flight at most, issued after those of the positions before.
C9_SyncAsyncAgree ==
    /\ (Finished(sres) /\ Finished(ares)) => (ares = sres /\ aqueries = squeries)
    /\ Finished(sres) => squeries = QueriedHosts(Attempts)
    /\ apc = "await" =>
          /\ aattempts = Attempts
          /\ aattempts[ai].totry
          /\ aqueries = FlaggedHostsUpTo(aattempts, ai)
    /\ apc = "done" <=> Finished(ares)

\* C9 witness: two flagged positions, the second answered by two records of one
\* tier drawn root first; both calls have returned the same rewritten parameters.
C9_Witness ==
    /\ Rewritten(sres)
    /\ ares = sres
    /\ Len(squeries) = 2
    /\ aqueries = squeries
    /\ dns[2] = <<Reply(FALSE, <<RootRR, RRb>>, <<0, 1>>)>>
    /\ dns[1] = <<FailReply>>

====
